---- MODULE Spec2Model ----
(***************************************************************************)
(* Model of src/server.js (PriceDrop AI): the /api/search handler, its two *)
(* Gemini search passes, the inline price sanitizer, the 40% fairness rule *)
(* and the link composers.                                                 *)
(*                                                                         *)
(* JavaScript values.  A price or an original price is a JS value: a       *)
(* number, null, undefined or NaN.  They are records [kind, val] so that   *)
(* the coercions of the source (undefined * 0.85 is NaN, every comparison  *)
(* with NaN is false) are computed and not assumed.  Numbers are integers: *)
(* the prompts ask for "number only" prices and every replacement price is *)
(* Math.floor'ed.  For integer operands the double-precision products      *)
(* x * 0.40 and x * 0.3 compare with integers exactly as the rationals     *)
(* 4x/10 and 3x/10 do, so the comparisons are modelled in integers.        *)
(*                                                                         *)
(* Math.random() returns k / RandSteps for a k in 0 .. RandSteps-1.        *)
(*                                                                         *)
(* Strings that the source encodes or lower-cases are drawn from small     *)
(* sets and the conversions are tabulated on them.  A URL is the sequence  *)
(* of the string pieces the template literal concatenates.                 *)
(***************************************************************************)
EXTENDS Integers, Sequences, FiniteSets, TLC

VARIABLES
    pc,                  \* per request: position in the async handler
    body,                \* per request: req.body.bookingData after destructuring
    broadCall,           \* per request: state of the broad pass's axios.post
    partnerCall,         \* per request: state of the partner pass's axios.post
    broadRaw,            \* per request: offer returned by performBroadSearchWithGemini
    partnerRaw,          \* per request: offer returned by performPartnerSearchWithGemini
    broadSearchResults,  \* per request: the broad offer after the sanitizer steps
    partnerSearchResults,\* per request: the partner offer after the sanitizer steps
    invoked,             \* per request: sequence of decision/link functions called
    response,            \* per request: sequence of responses sent through res
    ruleIn,              \* arguments of the last direct apply40PercentRule call
    decision,            \* its returned FairnessDecision
    sanIn,               \* input of the last direct sanitizer run
    sanOut               \* its resulting price

vars == <<pc, body, broadCall, partnerCall, broadRaw, partnerRaw,
          broadSearchResults, partnerSearchResults, invoked, response,
          ruleIn, decision, sanIn, sanOut>>

handlerVars == <<pc, body, broadCall, partnerCall, broadRaw, partnerRaw,
                 broadSearchResults, partnerSearchResults, invoked, response>>

-----------------------------------------------------------------------------
(* Bounds *)

RandSteps == 4       \* resolution of Math.random()
MaxPrice == 12       \* largest price fed directly to the rule and the sanitizer

-----------------------------------------------------------------------------
(* JavaScript values *)

Num(n) == [kind |-> "number", val |-> n]

Null == [kind |-> "null", val |-> 0]

Undefined == [kind |-> "undefined", val |-> 0]

NaN == [kind |-> "NaN", val |-> 0]

IsNum(x) == x.kind = "number"

\* price === null || price === undefined
IsNullish(x) == x.kind \in {"null", "undefined"}

\* a - b on JS values (the operands here are numbers, undefined or NaN)
Minus(a, b) == IF IsNum(a) /\ IsNum(b) THEN Num(a.val - b.val) ELSE NaN

\* a >= b on JS values: false as soon as one side is NaN or undefined
GreaterEq(a, b) == IsNum(a) /\ IsNum(b) /\ a.val >= b.val

\* Math.round(x) for x = n / d with d > 0: nearest integer, halves go up
MathRound(n, d) == (2 * n + d) \div (2 * d)

\* Math.floor(original_price * (lo + Math.random() * width)), the fractions
\* lo and width given in hundredths and Math.random() = k / RandSteps
FloorBand(original_price, lo, width, k) ==
    IF IsNum(original_price)
    THEN Num((original_price.val * (lo * RandSteps + width * k)) \div (100 * RandSteps))
    ELSE NaN

\* variant: the implausibility floor is half the original price
BelowFloor_half(price, original_price) ==
    IsNum(price) /\ IsNum(original_price) /\ 2 * price.val < original_price.val

\* price < original_price * 0.3
BelowFloor(price, original_price) ==
    IsNum(price) /\ IsNum(original_price) /\ 10 * price.val < 3 * original_price.val

RandomDraws == 0 .. (RandSteps - 1)

\* the draws of a Math.random() call that runs only when cond holds
DrawsIf(cond) == IF cond THEN RandomDraws ELSE {0}

-----------------------------------------------------------------------------
(* Offer Sanitizer: the four inline steps of the /api/search handler *)

\* variant: the null fallback draws from the band of the second step
BroadNullFallback_wide(price, original_price, k) ==
    IF IsNullish(price) THEN FloorBand(original_price, 70, 15, k) ELSE price

\* lines 258-262: the broad pass's price is null/undefined
BroadNullFallback(price, original_price, k) ==
    IF IsNullish(price) THEN FloorBand(original_price, 85, 10, k) ELSE price

\* lines 265-268: the broad pass's price is below 30% of the original
BroadCheapAdjust(price, original_price, k) ==
    IF BelowFloor(price, original_price) THEN FloorBand(original_price, 70, 15, k) ELSE price

\* lines 277-281: the partner pass's price is null/undefined
PartnerNullFallback(price, original_price, k) ==
    IF IsNullish(price) THEN FloorBand(original_price, 88, 7, k) ELSE price

\* lines 284-287: the partner pass's price is below 30% of the original
PartnerCheapAdjust(price, original_price, k) ==
    IF BelowFloor(price, original_price) THEN FloorBand(original_price, 75, 15, k) ELSE price

\* the two broad steps in the order the handler runs them; k1, k2 are the
\* Math.random() draws of the first and the second step
SanitizeBroad(price, original_price, k1, k2) ==
    BroadCheapAdjust(BroadNullFallback(price, original_price, k1), original_price, k2)

SanitizePartner(price, original_price, k1, k2) ==
    PartnerCheapAdjust(PartnerNullFallback(price, original_price, k1), original_price, k2)

-----------------------------------------------------------------------------
(* Fairness Decision Engine *)

\* variant: the decision compares the gap with the rounded threshold
GapWithinThreshold_rounded(savingsGap, partnerSavings) ==
    IsNum(savingsGap) /\ IsNum(partnerSavings)
    /\ savingsGap.val <= MathRound(4 * partnerSavings.val, 10)

\* variant: the decision compares the size of the gap, whatever its sign
GapWithinThreshold_abs(savingsGap, partnerSavings) ==
    IsNum(savingsGap) /\ IsNum(partnerSavings)
    /\ 10 * (IF savingsGap.val < 0 THEN 0 - savingsGap.val ELSE savingsGap.val)
         <= 4 * partnerSavings.val

\* variant: the comparison is written the wrong way round
GapWithinThreshold_reversed(savingsGap, partnerSavings) ==
    IsNum(savingsGap) /\ IsNum(partnerSavings) /\ 10 * savingsGap.val >= 4 * partnerSavings.val

\* savingsGap <= partnerSavings * 0.40, on JS values
GapWithinThreshold(savingsGap, partnerSavings) ==
    IsNum(savingsGap) /\ IsNum(partnerSavings) /\ 10 * savingsGap.val <= 4 * partnerSavings.val

\* Math.round(partnerSavings * 0.40)
RoundedThreshold(partnerSavings) ==
    IF IsNum(partnerSavings) THEN Num(MathRound(4 * partnerSavings.val, 10)) ELSE NaN

apply40PercentRule(originalPrice, partnerPrice, competitorPrice) ==
    LET partnerSavings == Minus(originalPrice, partnerPrice)
        competitorSavings == Minus(originalPrice, competitorPrice)
        savingsGap == Minus(competitorSavings, partnerSavings)
        showPartner == GapWithinThreshold(savingsGap, partnerSavings)
    IN  [partnerSavings |-> partnerSavings,
         competitorSavings |-> competitorSavings,
         savingsGap |-> savingsGap,
         threshold |-> RoundedThreshold(partnerSavings),
         showPartner |-> showPartner,
         explanation |-> IF showPartner
                         THEN "Gap is small - showing profitable partner link"
                         ELSE "Gap is significant - showing fair competitor link"]

-----------------------------------------------------------------------------
(* Strings *)

\* a string-valued field that is undefined (absent from the JSON or the body)
UndefinedStr == "<undefined>"

\* no direct link: direct_link is null, undefined or the empty string
NoLink == << >>

\* the clock of the server reads 2025-06-01
getDefaultCheckIn == "2025-06-02"

getDefaultCheckOut == "2025-06-03"

\* s || fallback for a string s
OrElse(s, fallback) == IF s = UndefinedStr THEN fallback ELSE s

\* String.prototype.toLowerCase on the site names of the model
ToLowerCase(s) ==
    CASE s = "Expedia" -> "expedia"
      [] s = "Agoda" -> "agoda"
      [] s = "Priceline" -> "priceline"
      [] s = "Trivago" -> "trivago"
      [] s = "Booking.com" -> "booking.com"
      [] s = "Kayak" -> "kayak"
      [] s = "Hotels.com" -> "hotels.com"
      [] s = "MyTrip" -> "mytrip"
      [] s = "Address Hotels" -> "address hotels"
      [] s = "Mystery Inn" -> "mystery inn"
      [] OTHER -> s

\* lower.includes(needle) for the needles of performPartnerSearchWithGemini
Includes(lower, needle) ==
    CASE needle = "hotels" -> lower \in {"hotels.com", "address hotels"}
      [] needle = "mytrip" -> lower = "mytrip"
      [] needle = "address" -> lower = "address hotels"
      [] OTHER -> FALSE

\* lower.replace(/[^a-z]/g, '')
OnlyLetters(lower) ==
    CASE lower = "booking.com" -> "bookingcom"
      [] lower = "hotels.com" -> "hotelscom"
      [] lower = "address hotels" -> "addresshotels"
      [] lower = "mystery inn" -> "mysteryinn"
      [] OTHER -> lower

\* date.replace(/-/g, '/')
DashesToSlashes(date) ==
    CASE date = "2025-06-15" -> "2025/06/15"
      [] date = "2025-06-18" -> "2025/06/18"
      [] date = "2025-06-02" -> "2025/06/02"
      [] date = "2025-06-03" -> "2025/06/03"
      [] OTHER -> date

\* encodeURIComponent on the pieces the link composers encode: letters,
\* digits and - _ . are kept, every other character becomes %XX
encodeURIComponent(s) ==
    CASE s = "Grand Hotel" -> "Grand%20Hotel"
      [] s = "Grand%20Hotel" -> "Grand%2520Hotel"
      [] s = "https://www.hotels.com/search.do?destination="
           -> "https%3A%2F%2Fwww.hotels.com%2Fsearch.do%3Fdestination%3D"
      [] s = "https://www.addresshotels.com/hotels?destination="
           -> "https%3A%2F%2Fwww.addresshotels.com%2Fhotels%3Fdestination%3D"
      [] s = "https://www.mytrip.com/hotels?destination="
           -> "https%3A%2F%2Fwww.mytrip.com%2Fhotels%3Fdestination%3D"
      [] s = "&startDate=" -> "%26startDate%3D"
      [] s = "&endDate=" -> "%26endDate%3D"
      [] s = "&locale=he_IL" -> "%26locale%3Dhe_IL"
      [] s = "&checkin=" -> "%26checkin%3D"
      [] s = "&checkout=" -> "%26checkout%3D"
      [] OTHER -> s

\* variant: the target URL is appended without encoding
EncodePieces_identity(url) == url

\* encodeURIComponent of a string given by its pieces: the encoding works
\* character by character, so it is the concatenation of the encoded pieces
EncodePieces(url) == [i \in DOMAIN url |-> encodeURIComponent(url[i])]

-----------------------------------------------------------------------------
(* Link Composer *)

APPROVED_PARTNERS ==
    [hotels_com |-> [name |-> "Hotels.com", cjId |-> "1702763",
                     baseUrl |-> "https://www.anrdoezrs.net/click-1702763-15042852"],
     address_hotels |-> [name |-> "Address Hotels", cjId |-> "7280686",
                         baseUrl |-> "https://www.anrdoezrs.net/click-7280686-15042852"],
     mytrip |-> [name |-> "MyTrip", cjId |-> "7122258",
                 baseUrl |-> "https://www.anrdoezrs.net/click-7122258-15042852"]]

\* a returned URL, or the TypeError of calling toLowerCase on undefined
Returned(url) == [threw |-> FALSE, url |-> url]

Thrown == [threw |-> TRUE, url |-> NoLink]

generateDirectLink(result, hotelName, checkIn, checkOut) ==
    LET hotelSearch == encodeURIComponent(OrElse(hotelName, "hotel"))
        checkin == OrElse(checkIn, getDefaultCheckIn)
        checkout == OrElse(checkOut, getDefaultCheckOut)
        checkinFormatted == DashesToSlashes(checkin)
        checkoutFormatted == DashesToSlashes(checkout)
        site == ToLowerCase(result.site)
    IN  IF result.site = UndefinedStr THEN Thrown
        ELSE CASE site = "expedia" ->
                    Returned(<<"https://www.expedia.com/Hotel-Search?destination=", hotelSearch,
                               "&startDate=", checkinFormatted, "&endDate=", checkoutFormatted,
                               "&rooms=1&adults=2">>)
               [] site = "agoda" ->
                    Returned(<<"https://www.agoda.com/search?city=", hotelSearch,
                               "&checkIn=", checkin, "&checkOut=", checkout, "&rooms=1&adults=2">>)
               [] site = "priceline" ->
                    Returned(<<"https://www.priceline.com/relax/at/", hotelSearch,
                               "/", checkin, "/", checkout, "/1-rooms-2-adults">>)
               [] site \in {"booking.com", "booking"} ->
                    Returned(<<"https://www.booking.com/searchresults.html?ss=", hotelSearch,
                               "&checkin=", checkin, "&checkout=", checkout,
                               "&no_rooms=1&group_adults=2">>)
               [] site = "trivago" ->
                    Returned(<<"https://www.trivago.com/search?query=", hotelSearch,
                               "&checkin=", checkin, "&checkout=", checkout, "&adults=2&rooms=1">>)
               [] site = "kayak" ->
                    Returned(<<"https://www.kayak.com/hotels/", hotelSearch,
                               "/", checkin, "/", checkout, "/2adults">>)
               [] site = "hotels.com" ->
                    Returned(<<"https://www.hotels.com/search.do?q-destination=",
                               encodeURIComponent(hotelSearch),
                               "&q-check-in=", checkin, "&q-check-out=", checkout,
                               "&q-rooms=1&q-room-0-adults=2&q-room-0-children=0">>)
               [] OTHER ->
                    Returned(<<"https://www.google.com/search?q=\"", hotelSearch,
                               "\"+hotel+booking+", checkin, "+", checkout,
                               "+site:", OnlyLetters(site), ".com">>)

generateAffiliateLink(partnerResult, hotelName, checkIn, checkOut) ==
    LET hotelSearch == encodeURIComponent(OrElse(hotelName, "hotel"))
        checkin == OrElse(checkIn, getDefaultCheckIn)
        checkout == OrElse(checkOut, getDefaultCheckOut)
        id == partnerResult.partnerId
    IN  IF id \notin DOMAIN APPROVED_PARTNERS
        THEN generateDirectLink(partnerResult, hotelName, checkIn, checkOut)
        ELSE LET targetUrl ==
                   CASE id = "hotels_com" ->
                          <<"https://www.hotels.com/search.do?destination=", hotelSearch,
                            "&startDate=", checkin, "&endDate=", checkout, "&locale=he_IL">>
                     [] id = "address_hotels" ->
                          <<"https://www.addresshotels.com/hotels?destination=", hotelSearch,
                            "&checkin=", checkin, "&checkout=", checkout>>
                     [] id = "mytrip" ->
                          <<"https://www.mytrip.com/hotels?destination=", hotelSearch,
                            "&checkin=", checkin, "&checkout=", checkout>>
             IN  Returned(<<APPROVED_PARTNERS[id].baseUrl, "?url=">> \o EncodePieces(targetUrl))

\* the names of the link functions a composition runs, in call order
LinkCalls(showPartner, partnerResult) ==
    IF ~showPartner THEN <<"generateDirectLink">>
    ELSE IF partnerResult.partnerId \in DOMAIN APPROVED_PARTNERS
         THEN <<"generateAffiliateLink">>
         ELSE <<"generateAffiliateLink", "generateDirectLink">>

-----------------------------------------------------------------------------
(* Offer Acquisition Service *)

\* an offer object; a broad offer has no partnerId
Offer(site, price, partnerId, conditions_match, direct_link) ==
    [site |-> site, price |-> price, partnerId |-> partnerId,
     conditions_match |-> conditions_match, direct_link |-> direct_link]

NoOffer == Offer(UndefinedStr, Undefined, UndefinedStr, FALSE, NoLink)

\* ways the external call or the extraction fails: axios timeout, non-2xx
\* status, no text in the response, no brace in the text, invalid JSON
FailureKinds == {"timeout", "non2xx", "empty", "nobrace", "badjson"}

\* the outcome of axios.post: a failure, or a text whose braces enclose json
Reply(kind, json) == [kind |-> kind, json |-> json]

\* lines 516-556; the result of a call is the parsed object or a throw
callGeminiWithWebSearch(reply) ==
    IF reply.kind \in FailureKinds
    THEN [threw |-> TRUE, result |-> NoOffer]
    ELSE LET result == reply.json
             price == IF IsNullish(result.price) \/ result.price.kind = "NaN"
                      THEN Null
                      ELSE result.price
         IN  [threw |-> FALSE, result |-> [result EXCEPT !.price = price]]

fallbackSites == <<"Expedia", "Agoda", "Priceline", "Trivago">>

\* Math.floor(Math.random() * n), Math.random() = k / RandSteps
RandomIndex(n, k) == (n * k) \div RandSteps

\* variant: the fallback offer of the broad pass's catch block claims that
\* the conditions match
performBroadSearchWithGemini_matching(reply, k1, k2) ==
    LET call == callGeminiWithWebSearch(reply)
    IN  IF ~call.threw
        THEN call.result
        ELSE Offer(fallbackSites[RandomIndex(Len(fallbackSites), k2) + 1],
                   Num(RandomIndex(800, k1) + 3200),
                   UndefinedStr, TRUE, NoLink)

\* lines 419-438; k1, k2 are the Math.random() draws of the catch block
performBroadSearchWithGemini(reply, k1, k2) ==
    LET call == callGeminiWithWebSearch(reply)
    IN  IF ~call.threw
        THEN call.result
        ELSE Offer(fallbackSites[RandomIndex(Len(fallbackSites), k2) + 1],
                   Num(RandomIndex(800, k1) + 3200),
                   UndefinedStr, FALSE, NoLink)

partnerOptions ==
    <<[site |-> "Hotels.com", partnerId |-> "hotels_com"],
      [site |-> "MyTrip", partnerId |-> "mytrip"],
      [site |-> "Address Hotels", partnerId |-> "address_hotels"]>>

\* lines 483-488: the partnerId derived from the site name
DerivedPartnerId(site) ==
    LET lower == ToLowerCase(site)
    IN  IF Includes(lower, "hotels") THEN "hotels_com"
        ELSE IF Includes(lower, "mytrip") THEN "mytrip"
        ELSE IF Includes(lower, "address") THEN "address_hotels"
        ELSE "hotels_com"

\* lines 479-491: the try block throws when the call throws, and when the
\* partnerId is missing and the site is not a string (result.site.toLowerCase)
PartnerTryThrows(reply) ==
    LET call == callGeminiWithWebSearch(reply)
    IN  call.threw \/ (call.result.partnerId = UndefinedStr /\ call.result.site = UndefinedStr)

\* lines 479-512; k1, k2 are the Math.random() draws of the catch block
performPartnerSearchWithGemini(reply, k1, k2) ==
    LET call == callGeminiWithWebSearch(reply)
        result == call.result
        threw == PartnerTryThrows(reply)
        chosen == partnerOptions[RandomIndex(Len(partnerOptions), k1) + 1]
    IN  IF ~threw
        THEN IF result.partnerId = UndefinedStr
             THEN [result EXCEPT !.partnerId = DerivedPartnerId(result.site)]
             ELSE result
        ELSE Offer(chosen.site, Num(RandomIndex(600, k2) + 3400),
                   chosen.partnerId, FALSE, NoLink)

-----------------------------------------------------------------------------
(* Orchestrator: app.post('/api/search') *)

Requests == {1, 2}

\* req.body?.bookingData || {} destructured; the fields the searches, the
\* sanitizer, the rule and the links read
BookingData(hotel_name, check_in_date, check_out_date, original_price) ==
    [hotel_name |-> hotel_name, check_in_date |-> check_in_date,
     check_out_date |-> check_out_date, original_price |-> original_price]

\* bookingData is missing: every destructured field is undefined
NoBookingData == BookingData(UndefinedStr, UndefinedStr, UndefinedStr, Undefined)

OriginalPrices == {Num(1), Num(10), Num(4000)}

Bodies ==
    {NoBookingData}
    \cup {BookingData("Grand Hotel", "2025-06-15", "2025-06-18", p) :
            p \in OriginalPrices \cup {Undefined}}
    \cup {BookingData(UndefinedStr, UndefinedStr, UndefinedStr, Num(10))}

\* a body is malformed when bookingData or its original price is missing
Malformed(b) == ~IsNum(b.original_price)

\* the price field of the JSON a reply carries: a number, null, absent, or a
\* value isNaN() rejects (NaN stands for a non-numeric string)
JsonPrices == {Null, Undefined, NaN} \cup {Num(p) : p \in {0, 9, 10, 3000, 4000}}

SomeDirectLink == <<"https://deals.example.com/offer/123">>

FailureReplies == {Reply(kind, NoOffer) : kind \in FailureKinds}

BroadReplies ==
    FailureReplies
    \cup {Reply("json", Offer(site, price, UndefinedStr, cm, dl)) :
            site \in {UndefinedStr, "Expedia", "Mystery Inn"}, price \in JsonPrices,
            cm \in BOOLEAN, dl \in {NoLink, SomeDirectLink}}

PartnerReplies ==
    FailureReplies
    \cup {Reply("json", Offer(site, price, id, cm, dl)) :
            site \in {UndefinedStr, "Hotels.com"}, price \in JsonPrices,
            id \in {UndefinedStr, "mytrip", "bogus_partner"},
            cm \in BOOLEAN, dl \in {NoLink, SomeDirectLink}}

\* two requests are being served: their inputs are drawn from smaller sets,
\* which still lead to every kind of response
Concurrent == \A r \in Requests : pc[r] # "off"

ConcurrentBodies ==
    {NoBookingData, BookingData("Grand Hotel", "2025-06-15", "2025-06-18", Num(10))}

ConcurrentBroadReplies ==
    {Reply("json", Offer("Expedia", Num(9), UndefinedStr, FALSE, NoLink)),
     Reply("json", Offer(UndefinedStr, Num(10), UndefinedStr, FALSE, NoLink))}

ConcurrentPartnerReplies ==
    {Reply("timeout", NoOffer),
     Reply("json", Offer("Hotels.com", Num(10), "mytrip", TRUE, SomeDirectLink)),
     Reply("json", Offer("Hotels.com", Num(9), "bogus_partner", FALSE, NoLink))}

\* the bodies and replies a step draws from
BodiesNow == IF Concurrent THEN ConcurrentBodies ELSE Bodies

BroadRepliesNow == IF Concurrent THEN ConcurrentBroadReplies ELSE BroadReplies

PartnerRepliesNow == IF Concurrent THEN ConcurrentPartnerReplies ELSE PartnerReplies

\* variant: the no-savings exit needs both prices strictly above the original
NoSavings_strict(partnerPrice, broadPrice, original_price) ==
    /\ IsNum(partnerPrice) /\ IsNum(broadPrice) /\ IsNum(original_price)
    /\ partnerPrice.val > original_price.val
    /\ broadPrice.val > original_price.val

\* line 292: both sanitized prices are at or above the original price
NoSavings(partnerPrice, broadPrice, original_price) ==
    GreaterEq(partnerPrice, original_price) /\ GreaterEq(broadPrice, original_price)

\* variant: a direct link is used whether or not the conditions match
UsesDirectLink_anyLink(chosenResult) ==
    chosenResult.direct_link # NoLink

\* line 322: chosenResult.direct_link && chosenResult.conditions_match
UsesDirectLink(chosenResult) ==
    chosenResult.direct_link # NoLink /\ chosenResult.conditions_match

\* lines 326-328
ComposeLink(showPartner, partnerResult, broadResult, b) ==
    IF showPartner
    THEN generateAffiliateLink(partnerResult, b.hotel_name, b.check_in_date, b.check_out_date)
    ELSE generateDirectLink(broadResult, b.hotel_name, b.check_in_date, b.check_out_date)

NoSavingsResponse(b) ==
    [status |-> "NO_SAVINGS_FOUND", httpStatus |-> 200, original_price |-> b.original_price]

ErrorResponse ==
    [status |-> "ERROR", httpStatus |-> 500, message |-> "search error"]

SavingsResponse(b, rule, chosenResult, partnerResult, broadResult, link) ==
    [status |-> IF rule.showPartner THEN "SAVINGS_FOUND_PARTNER" ELSE "SAVINGS_FOUND_COMPETITOR",
     httpStatus |-> 200,
     savings |-> Minus(b.original_price, chosenResult.price),
     newPrice |-> chosenResult.price,
     provider |-> chosenResult.site,
     rule_applied |-> rule.explanation,
     is_affiliate |-> rule.showPartner,
     conditions_match |-> chosenResult.conditions_match,
     conditions_warning |-> ~chosenResult.conditions_match,
     business_logic |-> [original_price |-> b.original_price,
                         partner_price |-> partnerResult.price,
                         competitor_price |-> broadResult.price,
                         partner_savings |-> rule.partnerSavings,
                         competitor_savings |-> rule.competitorSavings,
                         savings_gap |-> rule.savingsGap,
                         threshold_40_percent |-> rule.threshold,
                         decision |-> IF rule.showPartner THEN "partner" ELSE "competitor"],
     linkField |-> IF rule.showPartner THEN "affiliateLink" ELSE "directLink",
     link |-> link]

\* lines 291-384: what the handler does once both sanitized offers are known:
\* the response it sends and the decision/link functions it calls
Conclude(b, partnerResult, broadResult) ==
    IF NoSavings(partnerResult.price, broadResult.price, b.original_price)
    THEN [response |-> NoSavingsResponse(b), invoked |-> << >>]
    ELSE LET rule == apply40PercentRule(b.original_price, partnerResult.price, broadResult.price)
             chosenResult == IF rule.showPartner THEN partnerResult ELSE broadResult
         IN  IF UsesDirectLink(chosenResult)
             THEN [response |-> SavingsResponse(b, rule, chosenResult, partnerResult,
                                                broadResult, chosenResult.direct_link),
                   invoked |-> <<"apply40PercentRule">>]
             ELSE LET composed == ComposeLink(rule.showPartner, partnerResult, broadResult, b)
                      calls == <<"apply40PercentRule">> \o LinkCalls(rule.showPartner, partnerResult)
                  IN  IF composed.threw
                      THEN [response |-> ErrorResponse, invoked |-> calls]
                      ELSE [response |-> SavingsResponse(b, rule, chosenResult, partnerResult,
                                                         broadResult, composed.url),
                            invoked |-> calls]

\* lines 235-255: the handler starts: it destructures the body and issues the
\* broad search, whose axios.post suspends it
Receive(r) ==
    /\ pc[r] = "new"
    /\ \E b \in BodiesNow : body' = [body EXCEPT ![r] = b]
    /\ broadCall' = [broadCall EXCEPT ![r] = "inflight"]
    /\ pc' = [pc EXCEPT ![r] = "awaitBroad"]
    /\ UNCHANGED <<partnerCall, broadRaw, partnerRaw, broadSearchResults,
                   partnerSearchResults, invoked, response, ruleIn, decision, sanIn, sanOut>>

\* variant: the catch block of the broad pass notes the failure and calls the
\* API again instead of returning a fallback offer
BroadSearchSettles_retry(r) ==
    /\ pc[r] = "awaitBroad"
    /\ \/ /\ broadCall[r] = "inflight"
          /\ broadCall' = [broadCall EXCEPT ![r] = "failed"]
       \/ /\ broadCall[r] = "failed"
          /\ broadCall' = [broadCall EXCEPT ![r] = "inflight"]
    /\ UNCHANGED <<pc, body, partnerCall, broadRaw, partnerRaw, broadSearchResults,
                   partnerSearchResults, invoked, response, ruleIn, decision, sanIn, sanOut>>

\* variant: the sanitized broad offer is kept in one module-level variable
\* that every request reads
BroadSearchSettles_shared(r) ==
    /\ pc[r] = "awaitBroad"
    /\ \E reply \in BroadRepliesNow :
       \E k1, k2 \in DrawsIf(callGeminiWithWebSearch(reply).threw) :
       \E raw \in {performBroadSearchWithGemini(reply, k1, k2)} :
       \E k3 \in DrawsIf(IsNullish(raw.price)) :
       \E k4 \in DrawsIf(BelowFloor(BroadNullFallback(raw.price, body[r].original_price, k3),
                                    body[r].original_price)) :
       \E price \in {SanitizeBroad(raw.price, body[r].original_price, k3, k4)} :
             /\ broadCall' = [broadCall EXCEPT ![r] =
                                IF reply.kind \in FailureKinds THEN "failed" ELSE "answered"]
             /\ broadRaw' = [broadRaw EXCEPT ![r] = raw]
             /\ broadSearchResults' = [q \in Requests |-> [raw EXCEPT !.price = price]]
    /\ partnerCall' = [partnerCall EXCEPT ![r] = "inflight"]
    /\ pc' = [pc EXCEPT ![r] = "awaitPartner"]
    /\ UNCHANGED <<body, partnerRaw, partnerSearchResults, invoked, response,
                   ruleIn, decision, sanIn, sanOut>>

\* lines 255-274: the broad call settles; the pass returns its offer, the
\* handler sanitizes its price and issues the partner search
BroadSearchSettles(r) ==
    /\ pc[r] = "awaitBroad"
    /\ \E reply \in BroadRepliesNow :
       \E k1, k2 \in DrawsIf(callGeminiWithWebSearch(reply).threw) :
       \E raw \in {performBroadSearchWithGemini(reply, k1, k2)} :
       \E k3 \in DrawsIf(IsNullish(raw.price)) :
       \E k4 \in DrawsIf(BelowFloor(BroadNullFallback(raw.price, body[r].original_price, k3),
                                    body[r].original_price)) :
       \E price \in {SanitizeBroad(raw.price, body[r].original_price, k3, k4)} :
             /\ broadCall' = [broadCall EXCEPT ![r] =
                                IF reply.kind \in FailureKinds THEN "failed" ELSE "answered"]
             /\ broadRaw' = [broadRaw EXCEPT ![r] = raw]
             /\ broadSearchResults' = [broadSearchResults EXCEPT ![r] = [raw EXCEPT !.price = price]]
    /\ partnerCall' = [partnerCall EXCEPT ![r] = "inflight"]
    /\ pc' = [pc EXCEPT ![r] = "awaitPartner"]
    /\ UNCHANGED <<body, partnerRaw, partnerSearchResults, invoked, response,
                   ruleIn, decision, sanIn, sanOut>>

\* variant: the handler's catch block logs the error and sends no response
PartnerSearchSettles_silentError(r) ==
    /\ pc[r] = "awaitPartner"
    /\ \E reply \in PartnerRepliesNow :
       \E k1, k2 \in DrawsIf(PartnerTryThrows(reply)) :
       \E raw \in {performPartnerSearchWithGemini(reply, k1, k2)} :
       \E k3 \in DrawsIf(IsNullish(raw.price)) :
       \E k4 \in DrawsIf(BelowFloor(PartnerNullFallback(raw.price, body[r].original_price, k3),
                                    body[r].original_price)) :
       \E price \in {SanitizePartner(raw.price, body[r].original_price, k3, k4)} :
       \E partnerResult \in {[raw EXCEPT !.price = price]} :
       \E outcome \in {Conclude(body[r], partnerResult, broadSearchResults[r])} :
             /\ partnerCall' = [partnerCall EXCEPT ![r] =
                                  IF reply.kind \in FailureKinds THEN "failed" ELSE "answered"]
             /\ partnerRaw' = [partnerRaw EXCEPT ![r] = raw]
             /\ partnerSearchResults' = [partnerSearchResults EXCEPT ![r] = partnerResult]
             /\ invoked' = [invoked EXCEPT ![r] = outcome.invoked]
             /\ response' = [response EXCEPT ![r] =
                               IF outcome.response.status = "ERROR"
                               THEN @
                               ELSE Append(@, outcome.response)]
    /\ pc' = [pc EXCEPT ![r] = "done"]
    /\ UNCHANGED <<body, broadCall, broadRaw, broadSearchResults,
                   ruleIn, decision, sanIn, sanOut>>

\* lines 274-384: the partner call settles; the pass returns its offer, the
\* handler sanitizes its price, decides, composes the link and responds
PartnerSearchSettles(r) ==
    /\ pc[r] = "awaitPartner"
    /\ \E reply \in PartnerRepliesNow :
       \E k1, k2 \in DrawsIf(PartnerTryThrows(reply)) :
       \E raw \in {performPartnerSearchWithGemini(reply, k1, k2)} :
       \E k3 \in DrawsIf(IsNullish(raw.price)) :
       \E k4 \in DrawsIf(BelowFloor(PartnerNullFallback(raw.price, body[r].original_price, k3),
                                    body[r].original_price)) :
       \E price \in {SanitizePartner(raw.price, body[r].original_price, k3, k4)} :
       \E partnerResult \in {[raw EXCEPT !.price = price]} :
       \E outcome \in {Conclude(body[r], partnerResult, broadSearchResults[r])} :
             /\ partnerCall' = [partnerCall EXCEPT ![r] =
                                  IF reply.kind \in FailureKinds THEN "failed" ELSE "answered"]
             /\ partnerRaw' = [partnerRaw EXCEPT ![r] = raw]
             /\ partnerSearchResults' = [partnerSearchResults EXCEPT ![r] = partnerResult]
             /\ invoked' = [invoked EXCEPT ![r] = outcome.invoked]
             /\ response' = [response EXCEPT ![r] = Append(@, outcome.response)]
    /\ pc' = [pc EXCEPT ![r] = "done"]
    /\ UNCHANGED <<body, broadCall, broadRaw, broadSearchResults,
                   ruleIn, decision, sanIn, sanOut>>

NoDecision ==
    [partnerSavings |-> Undefined, competitorSavings |-> Undefined, savingsGap |-> Undefined,
     threshold |-> Undefined, showPartner |-> FALSE, explanation |-> ""]

NoRuleCall == [called |-> FALSE, originalPrice |-> Undefined, partnerPrice |-> Undefined,
               competitorPrice |-> Undefined, firstShowPartner |-> FALSE]

NoSanitizerRun == [pass |-> "none", price |-> Undefined, original_price |-> Undefined]

\* nothing has been called directly
DirectIdle ==
    /\ ruleIn = NoRuleCall
    /\ decision = NoDecision
    /\ sanIn = NoSanitizerRun
    /\ sanOut = Undefined

\* the server is up and request 1 has arrived
Init ==
    /\ pc = [r \in Requests |-> IF r = 1 THEN "new" ELSE "off"]
    /\ body = [r \in Requests |-> NoBookingData]
    /\ broadCall = [r \in Requests |-> "idle"]
    /\ partnerCall = [r \in Requests |-> "idle"]
    /\ broadRaw = [r \in Requests |-> NoOffer]
    /\ partnerRaw = [r \in Requests |-> NoOffer]
    /\ broadSearchResults = [r \in Requests |-> NoOffer]
    /\ partnerSearchResults = [r \in Requests |-> NoOffer]
    /\ invoked = [r \in Requests |-> << >>]
    /\ response = [r \in Requests |-> << >>]
    /\ DirectIdle

Next ==
    \E r \in Requests :
        \/ Receive(r)
        \/ BroadSearchSettles(r)
        \/ PartnerSearchSettles(r)

Spec == Init /\ [][Next]_vars

\* every external call answers, fails or times out (axios timeout 45000) and
\* the event loop then resumes the handler
Fairness ==
    \A r \in Requests :
        /\ WF_vars(Receive(r))
        /\ WF_vars(BroadSearchSettles(r))
        /\ WF_vars(PartnerSearchSettles(r))

\* the server is up and two requests have arrived
InitTwo ==
    /\ pc = [r \in Requests |-> "new"]
    /\ body = [r \in Requests |-> NoBookingData]
    /\ broadCall = [r \in Requests |-> "idle"]
    /\ partnerCall = [r \in Requests |-> "idle"]
    /\ broadRaw = [r \in Requests |-> NoOffer]
    /\ partnerRaw = [r \in Requests |-> NoOffer]
    /\ broadSearchResults = [r \in Requests |-> NoOffer]
    /\ partnerSearchResults = [r \in Requests |-> NoOffer]
    /\ invoked = [r \in Requests |-> << >>]
    /\ response = [r \in Requests |-> << >>]
    /\ DirectIdle

\* two requests whose steps interleave at the awaits
SpecTwo == InitTwo /\ [][Next]_vars

SpecTwoFair == InitTwo /\ [][Next]_vars /\ Fairness

-----------------------------------------------------------------------------
(* The fairness rule called directly, on every triple of bounded prices *)

RulePrices == 0 .. MaxPrice

CompetitorPrices == (0 - MaxPrice) .. MaxPrice

\* ruleIn.firstShowPartner remembers showPartner of the call before any
\* lowering of the competitor price
RuleCall ==
    /\ ~ruleIn.called
    /\ \E o \in RulePrices, p \in RulePrices, c \in CompetitorPrices :
         LET d == apply40PercentRule(Num(o), Num(p), Num(c))
         IN  /\ ruleIn' = [called |-> TRUE, originalPrice |-> Num(o), partnerPrice |-> Num(p),
                           competitorPrice |-> Num(c), firstShowPartner |-> d.showPartner]
             /\ decision' = d
    /\ UNCHANGED <<handlerVars, sanIn, sanOut>>

\* the same call again with the competitor price one unit lower
LowerCompetitor ==
    /\ ruleIn.called
    /\ ruleIn.competitorPrice.val - 1 \in CompetitorPrices
    /\ LET c == Num(ruleIn.competitorPrice.val - 1)
       IN  /\ ruleIn' = [ruleIn EXCEPT !.competitorPrice = c]
           /\ decision' = apply40PercentRule(ruleIn.originalPrice, ruleIn.partnerPrice, c)
    /\ UNCHANGED <<handlerVars, sanIn, sanOut>>

\* no request is being handled
HandlerIdle ==
    /\ pc = [r \in Requests |-> "off"]
    /\ body = [r \in Requests |-> NoBookingData]
    /\ broadCall = [r \in Requests |-> "idle"]
    /\ partnerCall = [r \in Requests |-> "idle"]
    /\ broadRaw = [r \in Requests |-> NoOffer]
    /\ partnerRaw = [r \in Requests |-> NoOffer]
    /\ broadSearchResults = [r \in Requests |-> NoOffer]
    /\ partnerSearchResults = [r \in Requests |-> NoOffer]
    /\ invoked = [r \in Requests |-> << >>]
    /\ response = [r \in Requests |-> << >>]

InitRule == HandlerIdle /\ DirectIdle

NextRule == RuleCall \/ LowerCompetitor

SpecRule == InitRule /\ [][NextRule]_vars

-----------------------------------------------------------------------------
(* The sanitizer steps run directly, on bounded prices *)

SanOriginals == {Num(p) : p \in 0 .. MaxPrice} \cup {Num(4000)}

SanPrices == {Null} \cup {Num(p) : p \in (0 - 2) .. MaxPrice} \cup {Num(1199), Num(1200), Num(4000)}

SanitizeBroadRun ==
    /\ \E original_price \in SanOriginals, price \in SanPrices :
       \E k1 \in DrawsIf(IsNullish(price)) :
       \E k2 \in DrawsIf(BelowFloor(BroadNullFallback(price, original_price, k1), original_price)) :
         /\ sanIn' = [pass |-> "broad", price |-> price, original_price |-> original_price]
         /\ sanOut' = SanitizeBroad(price, original_price, k1, k2)
    /\ UNCHANGED <<handlerVars, ruleIn, decision>>

SanitizePartnerRun ==
    /\ \E original_price \in SanOriginals, price \in SanPrices :
       \E k1 \in DrawsIf(IsNullish(price)) :
       \E k2 \in DrawsIf(BelowFloor(PartnerNullFallback(price, original_price, k1), original_price)) :
         /\ sanIn' = [pass |-> "partner", price |-> price, original_price |-> original_price]
         /\ sanOut' = SanitizePartner(price, original_price, k1, k2)
    /\ UNCHANGED <<handlerVars, ruleIn, decision>>

InitSan == HandlerIdle /\ DirectIdle

NextSan == SanitizeBroadRun \/ SanitizePartnerRun

SpecSan == InitSan /\ [][NextSan]_vars

-----------------------------------------------------------------------------
(* Properties *)

Done(r) == pc[r] = "done"

Sent(r) == response[r][1]

SavingsFound(r) ==
    Done(r) /\ Sent(r).status \in {"SAVINGS_FOUND_PARTNER", "SAVINGS_FOUND_COMPETITOR"}

\* C1 (as stated): showPartner is true exactly when the returned savingsGap is
\* at most the returned, rounded threshold.
C1_ShowPartnerIffGapWithinRoundedThreshold ==
    ruleIn.called =>
        (decision.showPartner <=> decision.savingsGap.val <= decision.threshold.val)

\* C1 (amended): showPartner is true exactly when the savings gap is at most
\* 40% of the partner savings before rounding, i.e. 10 * (partnerPrice -
\* competitorPrice) <= 4 * (originalPrice - partnerPrice); the returned
\* threshold is that 40% rounded to the nearest integer, halves upwards.
C1_ShowPartnerIffGapWithinExactThreshold ==
    ruleIn.called =>
        LET o == ruleIn.originalPrice.val
            p == ruleIn.partnerPrice.val
            c == ruleIn.competitorPrice.val
            t == decision.threshold.val
        IN  /\ decision.partnerSavings.val = o - p
            /\ decision.savingsGap.val = p - c
            /\ decision.showPartner <=> 10 * (p - c) <= 4 * (o - p)
            /\ 10 * t - 5 <= 4 * (o - p)
            /\ 4 * (o - p) < 10 * t + 5

\* the gap equals the rounded threshold but exceeds the exact one
C1_Witness ==
    /\ ruleIn.called
    /\ ~decision.showPartner
    /\ decision.savingsGap.val = decision.threshold.val

\* C2: when both sanitized prices are at or above the original price, the
\* response is the no-savings one and neither apply40PercentRule nor a link
\* function has been invoked for the request.
C2_NoSavingsExit ==
    \A r \in Requests :
        (Done(r) /\ GreaterEq(partnerSearchResults[r].price, body[r].original_price)
                 /\ GreaterEq(broadSearchResults[r].price, body[r].original_price))
        => (Sent(r).status = "NO_SAVINGS_FOUND" /\ invoked[r] = << >>)

\* both prices are at or above the original, one of them equal to it
C2_Witness ==
    \E r \in Requests :
        /\ Done(r)
        /\ Sent(r).status = "NO_SAVINGS_FOUND"
        /\ partnerSearchResults[r].price = body[r].original_price
        /\ GreaterEq(broadSearchResults[r].price, body[r].original_price)

\* C3: link composition never raises: whenever the handler has called a link
\* function, the request is answered with a non-empty link, never an error.
C3_LinkCompositionAlwaysSucceeds ==
    \A r \in Requests :
        (Done(r) /\ Len(invoked[r]) > 1)
        => (Sent(r).status # "ERROR" /\ SavingsFound(r) /\ Len(Sent(r).link) > 0)

\* C4: a request whose bookingData or original price is missing is answered
\* with the error response.
C4_MalformedBodyIsRejected ==
    \A r \in Requests :
        (Done(r) /\ Malformed(body[r])) => Sent(r).status = "ERROR"

\* C5: a failed external call or extraction is absorbed by its pass: the pass
\* has returned an offer with conditions_match false and no direct link, which
\* the sanitizer keeps so, and an error response is only ever due to an
\* answered call whose offer has no site name.
C5_FailureAbsorbed ==
    \A r \in Requests :
        /\ broadCall[r] = "failed" =>
              /\ pc[r] \in {"awaitPartner", "done"}
              /\ ~broadRaw[r].conditions_match /\ broadRaw[r].direct_link = NoLink
              /\ IsNum(broadRaw[r].price) /\ broadRaw[r].site # UndefinedStr
              /\ ~broadSearchResults[r].conditions_match
              /\ broadSearchResults[r].direct_link = NoLink
        /\ partnerCall[r] = "failed" =>
              /\ Done(r)
              /\ ~partnerRaw[r].conditions_match /\ partnerRaw[r].direct_link = NoLink
              /\ IsNum(partnerRaw[r].price) /\ partnerRaw[r].site # UndefinedStr
              /\ ~partnerSearchResults[r].conditions_match
              /\ partnerSearchResults[r].direct_link = NoLink
        /\ (Done(r) /\ Sent(r).status = "ERROR") =>
              \/ broadCall[r] = "answered" /\ broadRaw[r].site = UndefinedStr
              \/ partnerCall[r] = "answered" /\ partnerRaw[r].site = UndefinedStr

\* both calls failed and the request still ends with a recommendation
C5_Witness ==
    \E r \in Requests :
        /\ broadCall[r] = "failed"
        /\ partnerCall[r] = "failed"
        /\ SavingsFound(r)

\* C6: the partner call is issued without waiting for the broad call: at the
\* step that issues it the broad call is still in flight.
C6_PartnerIssuedWhileBroadInFlight ==
    [][\A r \in Requests :
          (partnerCall[r] = "idle" /\ partnerCall'[r] = "inflight")
          => broadCall'[r] = "inflight"]_vars

\* C7: after the sanitizer steps the price is a number, non-negative and not
\* below 0.30 x original.
C7_SanitizedPriceAboveFloor ==
    sanIn.pass # "none" =>
        /\ IsNum(sanOut)
        /\ sanOut.val >= 0
        /\ 10 * sanOut.val >= 3 * sanIn.original_price.val

\* C8: with original and partner price fixed, showPartner is false once the
\* competitor price is low enough, and when it is false it stays false at
\* every lower competitor price.
C8_FairnessMonotone ==
    /\ [](ruleIn.called /\ ruleIn.competitorPrice.val = 0 - MaxPrice => ~decision.showPartner)
    /\ [][(/\ ruleIn.called
           /\ ruleIn'.called
           /\ ruleIn'.originalPrice = ruleIn.originalPrice
           /\ ruleIn'.partnerPrice = ruleIn.partnerPrice
           /\ ruleIn'.competitorPrice.val < ruleIn.competitorPrice.val
           /\ ~decision.showPartner)
          => ~decision'.showPartner]_vars

\* showPartner was true at the first competitor price and lowering it has
\* flipped the decision
C8_Witness ==
    /\ ruleIn.called
    /\ ruleIn.firstShowPartner
    /\ ~decision.showPartner
    /\ ruleIn.competitorPrice.val >= 0

\* C9: a raw price that is a number and at least 0.30 x original leaves the
\* sanitizer of either pass unchanged.
C9_PassThrough ==
    (sanIn.pass # "none" /\ IsNum(sanIn.price)
     /\ 10 * sanIn.price.val >= 3 * sanIn.original_price.val)
    => sanOut = sanIn.price

\* a price between the floor and half the original went through the partner steps
C9_Witness ==
    /\ sanIn.pass = "partner"
    /\ IsNum(sanIn.price)
    /\ 10 * sanIn.price.val >= 3 * sanIn.original_price.val
    /\ 2 * sanIn.price.val < sanIn.original_price.val
    /\ sanOut = sanIn.price

\* C10: for an original price P > 0, an unknown price leaves the sanitizer as
\* an integer within [floor(0.85 P), floor(0.95 P)] on the broad pass and
\* within [floor(0.88 P), floor(0.95 P)] on the partner pass.
C10_UnknownPriceBand ==
    (sanIn.pass # "none" /\ IsNullish(sanIn.price) /\ sanIn.original_price.val > 0)
    => LET P == sanIn.original_price.val
           lo == IF sanIn.pass = "broad" THEN 85 ELSE 88
       IN  /\ IsNum(sanOut)
           /\ (lo * P) \div 100 <= sanOut.val
           /\ sanOut.val <= (95 * P) \div 100

\* an unknown broad price for the original price 4000, repaired inside [3400, 3800]
C10_Witness ==
    /\ sanIn.pass = "broad"
    /\ IsNullish(sanIn.price)
    /\ sanIn.original_price = Num(4000)
    /\ IsNum(sanOut)
    /\ sanOut.val > 3400
    /\ sanOut.val <= 3800

\* the offer the response of a finished request is about
Chosen(r) == IF Sent(r).is_affiliate THEN partnerSearchResults[r] ELSE broadSearchResults[r]

\* the first piece of every URL the link composers build
SynthesizedHeads ==
    {"https://www.anrdoezrs.net/click-1702763-15042852",
     "https://www.anrdoezrs.net/click-7280686-15042852",
     "https://www.anrdoezrs.net/click-7122258-15042852",
     "https://www.expedia.com/Hotel-Search?destination=",
     "https://www.agoda.com/search?city=",
     "https://www.priceline.com/relax/at/",
     "https://www.booking.com/searchresults.html?ss=",
     "https://www.trivago.com/search?query=",
     "https://www.kayak.com/hotels/",
     "https://www.hotels.com/search.do?q-destination=",
     "https://www.google.com/search?q=\""}

\* C11: in a SAVINGS_FOUND response, a chosen offer with a direct link and
\* conditions_match true has that direct link returned unmodified and no link
\* function called; any other chosen offer gets a link built by a link function.
C11_DirectLinkPreferred ==
    \A r \in Requests :
        SavingsFound(r) =>
            IF Chosen(r).direct_link # NoLink /\ Chosen(r).conditions_match
            THEN /\ Sent(r).link = Chosen(r).direct_link
                 /\ invoked[r] = <<"apply40PercentRule">>
            ELSE /\ Len(invoked[r]) > 1
                 /\ Sent(r).link # Chosen(r).direct_link
                 /\ Len(Sent(r).link) > 1
                 /\ Sent(r).link[1] \in SynthesizedHeads

\* the partner offer is chosen and its own direct link is returned
C11_Witness ==
    \E r \in Requests :
        /\ SavingsFound(r)
        /\ Sent(r).is_affiliate
        /\ partnerSearchResults[r].conditions_match
        /\ Sent(r).link = SomeDirectLink
        /\ invoked[r] = <<"apply40PercentRule">>

\* the encoded hotel name inside an encoded target URL
TwiceEncodedHotel(b) ==
    IF b.hotel_name = UndefinedStr THEN "hotel" ELSE "Grand%2520Hotel"

\* C13: a synthesized link for a partner offer whose partnerId is in the
\* catalog is the entry's base URL, then "?url=", then the URL-encoded target
\* of that partner; for a partnerId outside the catalog it is what
\* generateDirectLink returns for the same offer.
C13_AffiliateBranch ==
    \A r \in Requests :
        (SavingsFound(r) /\ Sent(r).is_affiliate /\ Len(invoked[r]) > 1) =>
            LET offer == partnerSearchResults[r]
                id == offer.partnerId
                link == Sent(r).link
                b == body[r]
                checkin == IF b.check_in_date = UndefinedStr THEN "2025-06-02" ELSE b.check_in_date
                checkout == IF b.check_out_date = UndefinedStr THEN "2025-06-03" ELSE b.check_out_date
            IN  CASE id = "hotels_com" ->
                       link = <<"https://www.anrdoezrs.net/click-1702763-15042852", "?url=",
                                "https%3A%2F%2Fwww.hotels.com%2Fsearch.do%3Fdestination%3D",
                                TwiceEncodedHotel(b), "%26startDate%3D", checkin,
                                "%26endDate%3D", checkout, "%26locale%3Dhe_IL">>
                  [] id = "address_hotels" ->
                       link = <<"https://www.anrdoezrs.net/click-7280686-15042852", "?url=",
                                "https%3A%2F%2Fwww.addresshotels.com%2Fhotels%3Fdestination%3D",
                                TwiceEncodedHotel(b), "%26checkin%3D", checkin,
                                "%26checkout%3D", checkout>>
                  [] id = "mytrip" ->
                       link = <<"https://www.anrdoezrs.net/click-7122258-15042852", "?url=",
                                "https%3A%2F%2Fwww.mytrip.com%2Fhotels%3Fdestination%3D",
                                TwiceEncodedHotel(b), "%26checkin%3D", checkin,
                                "%26checkout%3D", checkout>>
                  [] OTHER ->
                       /\ invoked[r] = <<"apply40PercentRule", "generateAffiliateLink",
                                         "generateDirectLink">>
                       /\ link = generateDirectLink(offer, b.hotel_name, b.check_in_date,
                                                    b.check_out_date).url

\* an affiliate link was built for a catalogued partner and a hotel name that
\* needs encoding
C13_Witness ==
    \E r \in Requests :
        /\ SavingsFound(r)
        /\ Sent(r).is_affiliate
        /\ invoked[r] = <<"apply40PercentRule", "generateAffiliateLink">>
        /\ partnerSearchResults[r].partnerId = "mytrip"
        /\ body[r].hotel_name = "Grand Hotel"

\* a partner offer outside the catalog got the direct branch's link
C13_FallbackReached ==
    \E r \in Requests :
        /\ SavingsFound(r)
        /\ Sent(r).is_affiliate
        /\ invoked[r] = <<"apply40PercentRule", "generateAffiliateLink", "generateDirectLink">>

\* C15: in a SAVINGS_FOUND response for a numeric original price the chosen
\* price is strictly below the original, so the reported savings, original
\* minus chosen price, is strictly positive.
C15_SavingsStrictlyPositive ==
    \A r \in Requests :
        (SavingsFound(r) /\ IsNum(body[r].original_price)) =>
            /\ IsNum(Sent(r).newPrice)
            /\ Sent(r).newPrice = Chosen(r).price
            /\ Sent(r).newPrice.val < body[r].original_price.val
            /\ IsNum(Sent(r).savings)
            /\ Sent(r).savings.val = body[r].original_price.val - Sent(r).newPrice.val
            /\ Sent(r).savings.val > 0

\* the partner offer costs as much as the original and the cheaper broad offer is chosen
C15_Witness ==
    \E r \in Requests :
        /\ SavingsFound(r)
        /\ IsNum(body[r].original_price)
        /\ partnerSearchResults[r].price = body[r].original_price
        /\ ~Sent(r).is_affiliate
        /\ Sent(r).savings.val > 0

\* the fallback offer of a pass's catch block
IsFallbackOffer(offer) ==
    /\ IsNum(offer.price)
    /\ offer.price.val >= 3200
    /\ offer.price.val < 4000
    /\ ~offer.conditions_match
    /\ offer.direct_link = NoLink
    /\ offer.site \in {"Expedia", "Agoda", "Priceline", "Trivago",
                       "Hotels.com", "MyTrip", "Address Hotels"}

\* C12: within a request each pass issues its external call at most once (a
\* call is only ever issued from the idle state, which is never re-entered),
\* and the step in which a call fails is the step in which the pass returns
\* its fallback offer and the handler moves on.
C12_NoRetry ==
    [][\A r \in Requests :
          /\ (broadCall'[r] = "inflight" /\ broadCall[r] # "inflight") => broadCall[r] = "idle"
          /\ broadCall[r] # "idle" => broadCall'[r] # "idle"
          /\ (broadCall[r] = "inflight" /\ broadCall'[r] # "inflight") =>
                 /\ pc'[r] = "awaitPartner"
                 /\ broadCall'[r] = "failed" => IsFallbackOffer(broadRaw'[r])
          /\ (partnerCall'[r] = "inflight" /\ partnerCall[r] # "inflight") => partnerCall[r] = "idle"
          /\ partnerCall[r] # "idle" => partnerCall'[r] # "idle"
          /\ (partnerCall[r] = "inflight" /\ partnerCall'[r] # "inflight") =>
                 /\ pc'[r] = "done"
                 /\ partnerCall'[r] = "failed" => IsFallbackOffer(partnerRaw'[r])]_vars

\* the broad call was answered, the partner call failed once and the request
\* finished on the partner pass's fallback offer
C12_Witness ==
    \E r \in Requests :
        /\ Done(r)
        /\ broadCall[r] = "answered"
        /\ partnerCall[r] = "failed"
        /\ IsFallbackOffer(partnerRaw[r])

\* C16: every request that has arrived is eventually finished with exactly one
\* response sent; at no time has a request more than one response, and a
\* response once sent is never followed by another.
C16_ExactlyOneResponse ==
    /\ \A r \in Requests : (pc[r] = "new") ~> (Done(r) /\ Len(response[r]) = 1)
    /\ [](\A r \in Requests : /\ Len(response[r]) <= 1
                              /\ Done(r) <=> Len(response[r]) = 1)
    /\ [][\A r \in Requests : Len(response[r]) = 1 => response'[r] = response[r]]_vars

\* the request finished on the error path with its one response
C16_Witness ==
    \E r \in Requests :
        /\ Done(r)
        /\ Len(response[r]) = 1
        /\ Sent(r).status = "ERROR"

\* C14: when two requests interleave, a step of one request changes nothing
\* of the other, and the response of each is the one its own body, its own
\* replies and its own random draws give: its sanitized offers come from its
\* own raw offers and its response from its own sanitized offers.
C14_RequestIndependence ==
    /\ [][\A r \in Requests :
             pc'[r] = pc[r] =>
                 /\ body'[r] = body[r]
                 /\ broadCall'[r] = broadCall[r]
                 /\ partnerCall'[r] = partnerCall[r]
                 /\ broadRaw'[r] = broadRaw[r]
                 /\ partnerRaw'[r] = partnerRaw[r]
                 /\ broadSearchResults'[r] = broadSearchResults[r]
                 /\ partnerSearchResults'[r] = partnerSearchResults[r]
                 /\ invoked'[r] = invoked[r]
                 /\ response'[r] = response[r]]_vars
    /\ [](\A r \in Requests :
             Done(r) =>
                 /\ \E k1, k2 \in RandomDraws :
                       broadSearchResults[r] =
                           [broadRaw[r] EXCEPT !.price =
                               SanitizeBroad(broadRaw[r].price, body[r].original_price, k1, k2)]
                 /\ \E k1, k2 \in RandomDraws :
                       partnerSearchResults[r] =
                           [partnerRaw[r] EXCEPT !.price =
                               SanitizePartner(partnerRaw[r].price, body[r].original_price, k1, k2)]
                 /\ response[r] =
                       <<Conclude(body[r], partnerSearchResults[r], broadSearchResults[r]).response>>)

\* two requests with different bodies have both finished, with different responses
C14_Witness ==
    \E r, q \in Requests :
        /\ r # q
        /\ Done(r) /\ Done(q)
        /\ body[r] # body[q]
        /\ Sent(r).status = "NO_SAVINGS_FOUND"
        /\ Sent(q).status = "ERROR"

====
